---- MODULE Spec2Model ----
(***************************************************************************)
(* Model of src/app.py, the shot-map dashboard: the Python aggregates      *)
(* (compute_stats, render_stats_html), the Bokeh data source, the slider   *)
(* callback STATS_JS, the xG overperformance curve and the two breakdowns. *)
(*                                                                         *)
(* Numbers.  xG values, their sums and the cumulative columns are binary   *)
(* floating-point numbers in the program.  They are modelled as integer    *)
(* multiples of 1/XgOne, and every float addition or subtraction rounds    *)
(* its exact result to MantBits significant bits, ties to even, as IEEE    *)
(* arithmetic does with 53 bits.  Quotients (percentages, averages) are    *)
(* kept as exact reduced fractions [num, den]; den = 0 marks the result of *)
(* a division by zero.  Slider values are in hundredths (step 0.01).       *)
(***************************************************************************)
EXTENDS Integers, Sequences, FiniteSets, TLC

\* ---------------------------------------------------------------- bounds
XgBits == 2
MantBits == 2
MaxShots == 2
NumTicks == 4
MaxCurveShots == 3
MaxGroupShots == 2

XgOne == 2 ^ XgBits

\* ------------------------------------------------------ program constants
SliderStart == 0
SliderEnd == 100
AlphaOn == 85
AlphaOff == 25
SizeGoal == 12
SizeMiss == 9
SizeOff == 6
ConvGood == 15
OnTgtGood == 40

Green == "#00e676"
Red == "#ff5f52"
Grey == "#555555"
Yellow == "#ffcc00"

VARIABLES player_df, source, stats_div, slider_value, cb, pc,
          opdf, curve, peak_label, sit_data, type_data

vars == <<player_df, source, stats_div, slider_value, cb, pc,
          opdf, curve, peak_label, sit_data, type_data>>

\* ------------------------------------------------------------ arithmetic
RECURSIVE GCD(_, _)
GCD(a, b) == IF b = 0 THEN a ELSE GCD(b, a % b)

Abs(n) == IF n < 0 THEN -n ELSE n

\* An exact quotient n/d, d > 0, in lowest terms.
Ratio(n, d) ==
    LET g == GCD(Abs(n), d)
    IN  [num |-> n \div g, den |-> d \div g]

RZero == [num |-> 0, den |-> 1]

\* What a division by zero leaves behind (ZeroDivisionError, NaN).
DivFault == [num |-> 0, den |-> 0]

\* n / d * 100 for two counts.
PctOf(n, d) == IF d = 0 THEN DivFault ELSE Ratio(100 * n, d)

\* a / d for a float a (in xG units) and a count d.
FloatOver(a, d) == IF d = 0 THEN DivFault ELSE Ratio(a, d * XgOne)

\* The float a (in xG units) as a fraction.
FloatRatio(a) == Ratio(a, XgOne)

RECURSIVE Shift(_)
Shift(n) == IF n < 2 ^ MantBits THEN 0 ELSE 1 + Shift(n \div 2)

FlRoundAbs(n) ==
    LET sh   == Shift(n)
        unit == 2 ^ sh
        q    == n \div unit
        r    == n % unit
    IN  IF sh = 0 THEN n
        ELSE IF 2 * r > unit \/ (2 * r = unit /\ q % 2 = 1)
             THEN (q + 1) * unit
             ELSE q * unit

\* Round to nearest representable float, ties to even.
FlRound(n) == IF n < 0 THEN -FlRoundAbs(-n) ELSE FlRoundAbs(n)

FlAdd(a, b) == FlRound(a + b)
FlSub(a, b) == FlRound(a - b)

\* A count as a float (exact: the counts are small).
IntToFloat(k) == k * XgOne

\* ------------------------------------------------------------ formatting
\* The decimal string printed for x with the given number of digits is
\* modelled by the integer it shows once the decimal point is removed.
Pow10(k) == 10 ^ k

\* Python's f'{x:.kf}': round half to even.
PyFormat(x, digits) ==
    LET n == x.num * Pow10(digits)
        q == n \div x.den
        r == n % x.den
    IN  IF 2 * r > x.den \/ (2 * r = x.den /\ q % 2 = 1) THEN q + 1 ELSE q

\* JavaScript's x.toFixed(k): of two nearest, the larger magnitude.
JsToFixedAbs(n, d) ==
    LET q == n \div d
        r == n % d
    IN  IF 2 * r >= d THEN q + 1 ELSE q

JsToFixed(x, digits) ==
    LET n == x.num * Pow10(digits)
    IN  IF n < 0 THEN -JsToFixedAbs(-n, x.den) ELSE JsToFixedAbs(n, x.den)

Num(v) == [kind |-> "num", v |-> v]
Dash == [kind |-> "dash", v |-> 0]
NoRow == [kind |-> "none", v |-> 0]

\* ----------------------------------------------------------- shot tables
Results == {"Goal", "SavedShot", "BlockedShot", "MissedShots", "ShotOnPost"}
XgValues == {x \in 1..XgOne : FlRound(x) = x}

Shot(xg, res, sit, ty) ==
    [xG |-> xg, result |-> res, situation |-> sit, shotType |-> ty,
     X |-> XgOne - 1, Y |-> XgOne \div 2]

SeqsUpTo(S, n) == UNION {[1..k -> S] : k \in 0..n}
NonEmptySeqsUpTo(S, n) == UNION {[1..k -> S] : k \in 1..n}

B2I(b) == IF b THEN 1 ELSE 0

RECURSIVE CountIf(_, _)
\* (column == value).sum(): the number of TRUE entries of a boolean column.
CountIf(col, i) == IF i = 0 THEN 0 ELSE CountIf(col, i - 1) + B2I(col[i])

Column(pdf, f) == [i \in 1..Len(pdf) |-> pdf[i][f]]

IsResult(pdf, res) == [i \in 1..Len(pdf) |-> pdf[i].result = res]
IsOnTarget(pdf) == [i \in 1..Len(pdf) |-> pdf[i].result \in {"Goal", "SavedShot"}]

RECURSIVE PdSumTo(_, _)
\* Series.sum() of a float column: numpy adds left to right (the pairwise
\* scheme starts at 8 elements, above every bound used here).
PdSumTo(col, i) == IF i = 0 THEN 0 ELSE FlAdd(PdSumTo(col, i - 1), col[i])
PdSum(col) == PdSumTo(col, Len(col))

\* Series.max() of a non-empty column.
PdMax(col) == CHOOSE m \in {col[i] : i \in 1..Len(col)} :
                 \A i \in 1..Len(col) : col[i] <= m

\* ---------------------------------------------------------- compute_stats
\* Mutant of compute_stats: conv_pct is computed without the shots > 0 guard.
compute_stats_unguarded(pdf) ==
    LET shots  == Len(pdf)
        goals  == CountIf(IsResult(pdf, "Goal"), shots)
        on_tgt == CountIf(IsOnTarget(pdf), shots)
        xg_sum == PdSum(Column(pdf, "xG"))
    IN  [shots      |-> shots,
         goals      |-> goals,
         on_tgt     |-> on_tgt,
         xg_sum     |-> xg_sum,
         high_xg    |-> IF shots > 0 THEN PdMax(Column(pdf, "xG")) ELSE 0,
         conv_pct   |-> PctOf(goals, shots),
         on_tgt_pct |-> IF shots > 0 THEN PctOf(on_tgt, shots) ELSE RZero,
         xg_per     |-> IF shots > 0 THEN FloatOver(xg_sum, shots) ELSE RZero,
         xg_diff    |-> FlSub(IntToFloat(goals), xg_sum),
         blocked    |-> CountIf(IsResult(pdf, "BlockedShot"), shots),
         missed     |-> CountIf(IsResult(pdf, "MissedShots"), shots),
         saved      |-> CountIf(IsResult(pdf, "SavedShot"), shots),
         post       |-> CountIf(IsResult(pdf, "ShotOnPost"), shots)]

compute_stats(pdf) ==
    LET shots  == Len(pdf)
        goals  == CountIf(IsResult(pdf, "Goal"), shots)
        on_tgt == CountIf(IsOnTarget(pdf), shots)
        xg_sum == PdSum(Column(pdf, "xG"))
    IN  [shots      |-> shots,
         goals      |-> goals,
         on_tgt     |-> on_tgt,
         xg_sum     |-> xg_sum,
         high_xg    |-> IF shots > 0 THEN PdMax(Column(pdf, "xG")) ELSE 0,
         conv_pct   |-> IF shots > 0 THEN PctOf(goals, shots) ELSE RZero,
         on_tgt_pct |-> IF shots > 0 THEN PctOf(on_tgt, shots) ELSE RZero,
         xg_per     |-> IF shots > 0 THEN FloatOver(xg_sum, shots) ELSE RZero,
         xg_diff    |-> FlSub(IntToFloat(goals), xg_sum),
         blocked    |-> CountIf(IsResult(pdf, "BlockedShot"), shots),
         missed     |-> CountIf(IsResult(pdf, "MissedShots"), shots),
         saved      |-> CountIf(IsResult(pdf, "SavedShot"), shots),
         post       |-> CountIf(IsResult(pdf, "ShotOnPost"), shots)]

\* Ratio comparison x >= k for an integer k.
RatioGeq(x, k) == x.num >= k * x.den

\* ------------------------------------------------------ render_stats_html
\* The shot outcome percentages render_stats_html computes before formatting.
render_rates(s) ==
    LET total == s.shots
    IN  [goal_pct    |-> IF total > 0 THEN PctOf(s.goals, total) ELSE RZero,
         saved_pct   |-> IF total > 0 THEN PctOf(s.saved, total) ELSE RZero,
         missed_pct  |-> IF total > 0 THEN PctOf(s.missed, total) ELSE RZero,
         blocked_pct |-> IF total > 0 THEN PctOf(s.blocked, total) ELSE RZero,
         post_pct    |-> IF total > 0 THEN PctOf(s.post, total) ELSE RZero]

\* The card, as the values its rows show.
render_stats_html(s) ==
    LET r == render_rates(s)
    IN  [shots       |-> Num(s.shots),
         goals       |-> Num(s.goals),
         conv        |-> Num(PyFormat(s.conv_pct, 1)),
         conv_color  |-> IF RatioGeq(s.conv_pct, ConvGood) THEN Green ELSE Yellow,
         on_tgt      |-> Num(PyFormat(s.on_tgt_pct, 1)),
         ontgt_color |-> IF RatioGeq(s.on_tgt_pct, OnTgtGood) THEN Green ELSE Yellow,
         goal_pct    |-> Num(PyFormat(r.goal_pct, 0)),
         saved_pct   |-> Num(PyFormat(r.saved_pct, 0)),
         missed_pct  |-> Num(PyFormat(r.missed_pct, 0)),
         blocked_pct |-> Num(PyFormat(r.blocked_pct, 0)),
         post_pct    |-> IF s.post > 0 THEN Num(PyFormat(r.post_pct, 0)) ELSE NoRow,
         xg_sum      |-> Num(PyFormat(FloatRatio(s.xg_sum), 2)),
         xg_sign     |-> IF s.xg_diff >= 0 THEN "+" ELSE "",
         xg_color    |-> IF s.xg_diff >= 0 THEN Green ELSE Red,
         xg_diff     |-> Num(PyFormat(FloatRatio(s.xg_diff), 2)),
         high_xg     |-> Num(PyFormat(FloatRatio(s.high_xg), 3)),
         xg_per      |-> Num(PyFormat(s.xg_per, 3))]

\* ------------------------------------------------------- ColumnDataSource
MakeSource(pdf) ==
    LET n == Len(pdf)
        g == IsResult(pdf, "Goal")
    IN  [x           |-> Column(pdf, "Y"),
         y           |-> Column(pdf, "X"),
         xg          |-> Column(pdf, "xG"),
         goal_flag   |-> [i \in 1..n |-> B2I(g[i])],
         on_target   |-> [i \in 1..n |-> B2I(IsOnTarget(pdf)[i])],
         blocked     |-> [i \in 1..n |-> B2I(pdf[i].result = "BlockedShot")],
         missed      |-> [i \in 1..n |-> B2I(pdf[i].result = "MissedShots")],
         saved       |-> [i \in 1..n |-> B2I(pdf[i].result = "SavedShot")],
         post        |-> [i \in 1..n |-> B2I(pdf[i].result = "ShotOnPost")],
         color       |-> [i \in 1..n |-> IF g[i] THEN Green ELSE Red],
         alpha       |-> [i \in 1..n |-> AlphaOn],
         marker_size |-> [i \in 1..n |-> IF g[i] THEN SizeGoal ELSE SizeMiss],
         line_color  |-> [i \in 1..n |-> IF g[i] THEN Green ELSE "white"]]

\* --------------------------------------------------------------- STATS_JS
\* Mutant of XgGeq: the comparison is turned round.
XgLeq(xg, thresh) == xg * SliderEnd <= thresh * XgOne

\* xg[i] >= thresh, the float xg[i] against a slider value in hundredths.
XgGeq(xg, thresh) == xg * SliderEnd >= thresh * XgOne

\* The callback's variables as declared before the loop.
JsLocals(d, thresh) ==
    [thresh |-> thresh,
     shots |-> 0, goals |-> 0, onTgt |-> 0, xgSum |-> 0, highXg |-> -XgOne,
     nBlocked |-> 0, nMissed |-> 0, nSaved |-> 0, nPost |-> 0,
     color |-> d.color, alpha |-> d.alpha, marker_size |-> d.marker_size]

\* Mutant of JsStep: a shot that passes the threshold is counted but its
\* styling is not restored.
JsStepNoRestore(d, i, a) ==
    IF XgGeq(d.xg[i], a.thresh)
    THEN [a EXCEPT
            !.shots    = @ + 1,
            !.goals    = @ + d.goal_flag[i],
            !.onTgt    = @ + d.on_target[i],
            !.xgSum    = FlAdd(@, d.xg[i]),
            !.nBlocked = @ + d.blocked[i],
            !.nMissed  = @ + d.missed[i],
            !.nSaved   = @ + d.saved[i],
            !.nPost    = @ + d.post[i],
            !.highXg   = IF d.xg[i] > @ THEN d.xg[i] ELSE @]
    ELSE [a EXCEPT
            !.color[i]       = Grey,
            !.alpha[i]       = AlphaOff,
            !.marker_size[i] = SizeOff]

\* One iteration of the loop, for index i, on the locals a.
JsStep(d, i, a) ==
    IF XgGeq(d.xg[i], a.thresh)
    THEN [a EXCEPT
            !.color[i]       = IF d.goal_flag[i] # 0 THEN Green ELSE Red,
            !.alpha[i]       = AlphaOn,
            !.marker_size[i] = IF d.goal_flag[i] # 0 THEN SizeGoal ELSE SizeMiss,
            !.shots    = @ + 1,
            !.goals    = @ + d.goal_flag[i],
            !.onTgt    = @ + d.on_target[i],
            !.xgSum    = FlAdd(@, d.xg[i]),
            !.nBlocked = @ + d.blocked[i],
            !.nMissed  = @ + d.missed[i],
            !.nSaved   = @ + d.saved[i],
            !.nPost    = @ + d.post[i],
            !.highXg   = IF d.xg[i] > @ THEN d.xg[i] ELSE @]
    ELSE [a EXCEPT
            !.color[i]       = Grey,
            !.alpha[i]       = AlphaOff,
            !.marker_size[i] = SizeOff]

RECURSIVE JsLoop(_, _, _)
\* The locals after the iterations 1..i.
JsLoop(d, thresh, i) ==
    IF i = 0 THEN JsLocals(d, thresh) ELSE JsStep(d, i, JsLoop(d, thresh, i - 1))

\* The constants the callback derives after the loop.
JsDerived(a) ==
    [convPct    |-> IF a.shots > 0 THEN PctOf(a.goals, a.shots) ELSE RZero,
     onTgtPct   |-> IF a.shots > 0 THEN PctOf(a.onTgt, a.shots) ELSE RZero,
     xgPerShot  |-> IF a.shots > 0 THEN FloatOver(a.xgSum, a.shots) ELSE RZero,
     xgDiff     |-> FlSub(IntToFloat(a.goals), a.xgSum),
     goalPct    |-> IF a.shots > 0 THEN PctOf(a.goals, a.shots) ELSE RZero,
     savedPct   |-> IF a.shots > 0 THEN PctOf(a.nSaved, a.shots) ELSE RZero,
     missedPct  |-> IF a.shots > 0 THEN PctOf(a.nMissed, a.shots) ELSE RZero,
     blockedPct |-> IF a.shots > 0 THEN PctOf(a.nBlocked, a.shots) ELSE RZero,
     postPct    |-> IF a.shots > 0 THEN PctOf(a.nPost, a.shots) ELSE RZero]

\* The text the callback assigns to stats_div, as the values its rows show.
JsCard(a, r) ==
    [shots       |-> Num(a.shots),
     goals       |-> Num(a.goals),
     conv        |-> Num(JsToFixed(r.convPct, 1)),
     conv_color  |-> IF RatioGeq(r.convPct, ConvGood) THEN Green ELSE Yellow,
     on_tgt      |-> Num(JsToFixed(r.onTgtPct, 1)),
     ontgt_color |-> IF RatioGeq(r.onTgtPct, OnTgtGood) THEN Green ELSE Yellow,
     goal_pct    |-> Num(JsToFixed(r.goalPct, 0)),
     saved_pct   |-> Num(JsToFixed(r.savedPct, 0)),
     missed_pct  |-> Num(JsToFixed(r.missedPct, 0)),
     blocked_pct |-> Num(JsToFixed(r.blockedPct, 0)),
     post_pct    |-> IF a.nPost > 0 THEN Num(JsToFixed(r.postPct, 0)) ELSE NoRow,
     xg_sum      |-> Num(JsToFixed(FloatRatio(a.xgSum), 2)),
     xg_sign     |-> IF r.xgDiff >= 0 THEN "+" ELSE "",
     xg_color    |-> IF r.xgDiff >= 0 THEN Green ELSE Red,
     xg_diff     |-> Num(JsToFixed(FloatRatio(r.xgDiff), 2)),
     high_xg     |-> IF a.highXg >= 0
                     THEN Num(JsToFixed(FloatRatio(a.highXg), 3))
                     ELSE Dash,
     xg_per      |-> Num(JsToFixed(r.xgPerShot, 3))]

\* ------------------------------------------------------------ slider spec
Thresholds == {(i * (SliderEnd - SliderStart)) \div NumTicks + SliderStart : i \in 0..NumTicks}

Unbuilt == << >>

\* The page as first rendered for one player's shots.
Rendered(pdf) ==
    /\ player_df = pdf
    /\ source = MakeSource(pdf)
    /\ stats_div = render_stats_html(compute_stats(pdf))
    /\ slider_value = SliderStart
    /\ cb = << >>
    /\ pc = "idle"
    /\ opdf = Unbuilt
    /\ curve = Unbuilt
    /\ peak_label = Unbuilt
    /\ sit_data = Unbuilt
    /\ type_data = Unbuilt

\* The shot map is explored on the xG values 1/XgOne, 2/XgOne, 4/XgOne, .. 1.
SliderXg == {2 ^ k : k \in 0..XgBits}

SliderShots ==
    {Shot(xg, res, "OpenPlay", "RightFoot") : xg \in SliderXg, res \in Results}

\* The page is only laid out for a player with shots: for an empty table the
\* script stops before st.bokeh_chart (see BuildCurve).
Init == \E pdf \in NonEmptySeqsUpTo(SliderShots, MaxShots) : Rendered(pdf)

\* Mutant of SliderChange: the outline colour is written along with the fill.
SliderChangeOutline(t) ==
    /\ pc = "idle"
    /\ t # slider_value
    /\ slider_value' = t
    /\ LET a == JsLoop(source, t, Len(source.xg))
       IN  /\ source' = [source EXCEPT !.color = a.color, !.alpha = a.alpha,
                                       !.marker_size = a.marker_size,
                                       !.line_color = a.color]
           /\ cb' = <<[locals |-> a, derived |-> << >>]>>
    /\ pc' = "emitted"
    /\ UNCHANGED <<player_df, stats_div, opdf, curve, peak_label, sit_data, type_data>>

\* The slider moves to t: the callback runs up to source.change.emit().
SliderChange(t) ==
    /\ pc = "idle"
    /\ t # slider_value
    /\ slider_value' = t
    /\ LET a == JsLoop(source, t, Len(source.xg))
       IN  /\ source' = [source EXCEPT !.color = a.color, !.alpha = a.alpha,
                                       !.marker_size = a.marker_size]
           /\ cb' = <<[locals |-> a, derived |-> << >>]>>
    /\ pc' = "emitted"
    /\ UNCHANGED <<player_df, stats_div, opdf, curve, peak_label, sit_data, type_data>>

\* The rest of the callback: the derived constants and stats_div.text.
AssignText ==
    /\ pc = "emitted"
    /\ LET a == cb[1].locals
           r == JsDerived(a)
       IN  /\ cb' = <<[locals |-> a, derived |-> <<r>>]>>
           /\ stats_div' = JsCard(a, r)
    /\ pc' = "idle"
    /\ UNCHANGED <<player_df, source, slider_value, opdf, curve, peak_label,
                   sit_data, type_data>>

Next ==
    \/ \E t \in Thresholds : SliderChange(t)
    \/ AssignText

Spec == Init /\ [][Next]_vars

\* ------------------------------------------------- claims on the shot map
\* The shots of pdf with xG >= t, in order: the view the slider value t selects.
FilterDf(pdf, t) == SelectSeq(pdf, LAMBDA sh : XgGeq(sh.xG, t))

LastRun == cb[1].locals
LastDerived == cb[1].derived[1]
CallbackDone == pc = "idle" /\ cb # << >>

\* The indices the callback styled as active.
Active(d) == {i \in 1..Len(d.xg) : d.alpha[i] = AlphaOn}

\* C1: after a slider callback at threshold t, every aggregate it computed
\* equals the field compute_stats returns for the shots with xG >= t,
\* the empty view included.
C1_PyJsIdentical ==
    CallbackDone =>
        LET py == compute_stats(FilterDf(player_df, slider_value))
            a  == LastRun
            r  == LastDerived
        IN  /\ py.shots = a.shots
            /\ py.goals = a.goals
            /\ py.on_tgt = a.onTgt
            /\ py.xg_sum = a.xgSum
            /\ py.high_xg = a.highXg
            /\ py.conv_pct = r.convPct
            /\ py.on_tgt_pct = r.onTgtPct
            /\ py.xg_per = r.xgPerShot
            /\ py.xg_diff = r.xgDiff
            /\ py.blocked = a.nBlocked
            /\ py.missed = a.nMissed
            /\ py.saved = a.nSaved
            /\ py.post = a.nPost

AllZero(rec) == \A f \in DOMAIN rec : rec[f] = RZero

\* C2: in an empty view every rate and average is exactly 0, never the
\* result of a division by zero, and the xG difference is 0: in
\* compute_stats, in render_stats_html and in the slider callback.
C2_EmptyViewRatesZero ==
    /\ \A t \in Thresholds :
          LET view == FilterDf(player_df, t)
              s    == compute_stats(view)
          IN  Len(view) = 0 =>
                 /\ s.conv_pct = RZero
                 /\ s.on_tgt_pct = RZero
                 /\ s.xg_per = RZero
                 /\ s.xg_diff = 0
                 /\ AllZero(render_rates(s))
    /\ (CallbackDone /\ LastRun.shots = 0) =>
          /\ AllZero([f \in DOMAIN LastDerived \ {"xgDiff"} |-> LastDerived[f]])
          /\ LastDerived.xgDiff = 0

C2_Witness ==
    /\ CallbackDone
    /\ LastRun.shots = 0
    /\ Len(player_df) = MaxShots
    /\ Len(FilterDf(player_df, slider_value)) = 0

\* C3: in an empty view the highest xG is a no-value marker, not a number:
\* neither stored by compute_stats or the callback nor shown on the card.
C3_EmptyMaxIsNoValue ==
    (CallbackDone /\ LastRun.shots = 0) =>
        /\ LastRun.highXg \notin Int
        /\ stats_div.high_xg.kind # "num"
        /\ compute_stats(FilterDf(player_df, slider_value)).high_xg \notin Int
        /\ render_stats_html(
              compute_stats(FilterDf(player_df, slider_value))).high_xg.kind # "num"

\* C4: when the slider moves up, the shots the callback marks active are
\* among those it marked active before, and shots, goals and xG sum do
\* not grow.
C4_ThresholdMonotone ==
    [][(CallbackDone /\ pc' = "emitted" /\ slider_value' > slider_value) =>
          /\ Active(source') \subseteq Active(source)
          /\ cb'[1].locals.shots <= LastRun.shots
          /\ cb'[1].locals.goals <= LastRun.goals
          /\ cb'[1].locals.xgSum <= LastRun.xgSum]_vars

C4_Witness ==
    /\ pc = "emitted"
    /\ slider_value > SliderStart
    /\ LastRun.shots > 0
    /\ LastRun.shots < Len(player_df)
    /\ stats_div.shots.v = Len(player_df)

\* C10: whenever an output of the callback is published, the point styling
\* and the statistics card belong to one threshold.
C10_PublishedTogether ==
    \E t \in Thresholds :
        LET view == FilterDf(player_df, t)
        IN  /\ \A i \in 1..Len(source.xg) :
                  source.alpha[i] = AlphaOn <=> XgGeq(source.xg[i], t)
            /\ stats_div.shots = Num(Len(view))
            /\ stats_div.goals = Num(Len(SelectSeq(view, LAMBDA sh : sh.result = "Goal")))

\* The columns of source that hold shot data.
DataColumns == {"x", "y", "xg", "goal_flag", "on_target", "blocked", "missed",
                "saved", "post", "line_color"}

\* C11: after any sequence of slider changes the shot data columns of source
\* hold their initial values and lengths; the callback writes only color,
\* alpha, marker_size (whose lengths stay) and the text of stats_div.
C11_ShotDataUnchanged ==
    /\ \A f \in DataColumns :
          /\ source[f] = MakeSource(player_df)[f]
          /\ Len(source[f]) = Len(player_df)
    /\ DOMAIN source = DOMAIN MakeSource(player_df)
    /\ \A f \in DOMAIN source \ DataColumns : Len(source[f]) = Len(player_df)

C11_Witness ==
    /\ CallbackDone
    /\ Len(player_df) = MaxShots
    /\ source.color # MakeSource(player_df).color
    /\ source.alpha # MakeSource(player_df).alpha
    /\ source.marker_size # MakeSource(player_df).marker_size
    /\ stats_div # render_stats_html(compute_stats(player_df))
    /\ \E i \in 1..Len(player_df) : source.line_color[i] = Green

\* The shots of player_df in view at slider value t, by index.
InView(t) == {i \in 1..Len(player_df) : XgGeq(player_df[i].xG, t)}

\* The number of shots in view at t with one of the given results.
ViewCount(t, results) ==
    Cardinality({i \in InView(t) : player_df[i].result \in results})

SortValuesUnsorted(pdf) == {pdf}

\* The orders sort_values("xG") may give: ascending in xG, shots of equal xG
\* in any order (the default sort kind is not stable).
SortValues(pdf) ==
    LET n == Len(pdf)
        perms == {p \in [1..n -> 1..n] : \A i, j \in 1..n : i # j => p[i] # p[j]}
    IN  {[i \in 1..n |-> pdf[p[i]]] : p \in
            {q \in perms : \A i \in 1..n : \A j \in 1..n :
                              i < j => pdf[q[i]].xG <= pdf[q[j]].xG}}

\* Series.cumsum() of a float column.
PdCumSum(col) == [i \in 1..Len(col) |-> PdSumTo(col, i)]

RECURSIVE IntSumTo(_, _)
IntSumTo(col, i) == IF i = 0 THEN 0 ELSE IntSumTo(col, i - 1) + col[i]

\* is_goal.cumsum().astype(float)
CumActual(is_goal) == [i \in 1..Len(is_goal) |-> IntToFloat(IntSumTo(is_goal, i))]

\* Series.idxmax() of a non-empty column: the label (from 0) of the first maximum.
IdxMax(col) ==
    (CHOOSE i \in 1..Len(col) :
        /\ \A j \in 1..Len(col) : col[j] <= col[i]
        /\ \A j \in 1..(i - 1) : col[j] < col[i]) - 1

\* The columns and lists built from the sorted table o (lines 275 to 290).
CurveLists(o) ==
    LET n       == Len(o)
        is_goal == [i \in 1..n |-> B2I(o[i].result = "Goal")]
        cum_e   == PdCumSum(Column(o, "xG"))
        cum_a   == CumActual(is_goal)
        ov      == [i \in 1..n |-> FlSub(cum_a[i], cum_e[i])]
        goals   == {i \in 1..n : is_goal[i] = 1}
    IN  [n            |-> n,
         overperf_col |-> ov,
         cum_expected |-> <<0>> \o cum_e,
         cum_actual   |-> <<0>> \o cum_a,
         overperf     |-> <<0>> \o ov,
         idx_plot     |-> <<0>> \o [i \in 1..n |-> (i - 1) + 1],
         goal_idx     |-> {(i - 1) + 1 : i \in goals}]

\* Mutant of Peak: the index is not moved past the synthetic zero point.
PeakNoOffset(ov) ==
    [peak_idx_in_list |-> IdxMax(ov),
     peak_overp_val   |-> PdMax(ov)]

\* peak_idx_in_list and peak_overp_val (lines 292, 293).
Peak(ov) ==
    [peak_idx_in_list |-> IdxMax(ov) + 1,
     peak_overp_val   |-> PdMax(ov)]

\* The script at line 274, for one player's shots.
AtCurve(pdf) ==
    /\ player_df = pdf
    /\ source = MakeSource(pdf)
    /\ stats_div = render_stats_html(compute_stats(pdf))
    /\ slider_value = SliderStart
    /\ cb = << >>
    /\ pc = "curve"
    /\ opdf = Unbuilt
    /\ curve = Unbuilt
    /\ peak_label = Unbuilt
    /\ sit_data = Unbuilt
    /\ type_data = Unbuilt

CurveShots ==
    {Shot(xg, res, "OpenPlay", "RightFoot") :
        xg \in XgValues, res \in {"Goal", "MissedShots"}}

InitCurve == \E pdf \in SeqsUpTo(CurveShots, MaxCurveShots) : AtCurve(pdf)

\* Lines 274 to 293.  idxmax of an empty column raises ValueError: the script
\* stops there, with the lists built and no peak.
BuildCurve ==
    /\ pc = "curve"
    /\ \E o \in SortValues(player_df) :
          /\ opdf' = o
          /\ \/ /\ Len(o) > 0
                /\ curve' = <<CurveLists(o), Peak(CurveLists(o).overperf_col)>>
                /\ pc' = "peak"
             \/ /\ Len(o) = 0
                /\ curve' = <<CurveLists(o)>>
                /\ pc' = "failed"
    /\ UNCHANGED <<player_df, source, stats_div, slider_value, cb, peak_label,
                   sit_data, type_data>>

\* Lines 340 to 349: the label and the segment of the peak.
PeakMarker ==
    /\ pc = "peak"
    /\ peak_label' = IF curve[2].peak_overp_val > 0
                     THEN <<[x    |-> curve[2].peak_idx_in_list,
                             y    |-> curve[2].peak_overp_val,
                             text |-> PyFormat(FloatRatio(curve[2].peak_overp_val), 2)]>>
                     ELSE << >>
    /\ pc' = "charted"
    /\ UNCHANGED <<player_df, source, stats_div, slider_value, cb, opdf, curve,
                   sit_data, type_data>>

NextCurve == BuildCurve \/ PeakMarker

SpecCurve == InitCurve /\ [][NextCurve]_vars

\* -------------------------------------------------- claims on the curve
CurveBuilt == curve # Unbuilt
Lists == curve[1]
PeakOf == curve[2]

\* The element of a Python list at index k (from 0).
At(list, k) == list[k + 1]

\* C5: for a non-empty table the last element of cum_expected equals the
\* xg_sum of compute_stats on the unsorted table, and the last element of
\* cum_actual equals its goals, whatever the order of equal xG.
C5_TerminalValues ==
    (CurveBuilt /\ Len(player_df) > 0) =>
        LET s == compute_stats(player_df)
            n == Len(player_df)
        IN  /\ At(Lists.cum_expected, n) = s.xg_sum
            /\ At(Lists.cum_actual, n) = IntToFloat(s.goals)

\* C6: the four lists have count + 1 elements, start at 0, and at index i
\* hold i, the xG sum, the goal count and goals minus xG sum of the first i
\* shots in ascending xG order; cum_expected rises strictly and cum_actual
\* by 0 or 1 per step.
C6_CurveShape ==
    CurveBuilt =>
        LET n == Len(player_df)
            o == opdf
            L == Lists
            goalsTo(i) == Cardinality({j \in 1..i : o[j].result = "Goal"})
        IN  /\ Len(o) = n
            /\ \A sh \in CurveShots :
                  Cardinality({i \in 1..n : o[i] = sh})
                     = Cardinality({i \in 1..n : player_df[i] = sh})
            /\ \A i \in 1..n : \A j \in 1..n : i < j => o[i].xG <= o[j].xG
            /\ Len(L.idx_plot) = n + 1
            /\ Len(L.cum_expected) = n + 1
            /\ Len(L.cum_actual) = n + 1
            /\ Len(L.overperf) = n + 1
            /\ At(L.idx_plot, 0) = 0
            /\ At(L.cum_expected, 0) = 0
            /\ At(L.cum_actual, 0) = 0
            /\ At(L.overperf, 0) = 0
            /\ \A i \in 1..n :
                  /\ At(L.idx_plot, i) = i
                  /\ At(L.cum_expected, i) = FlAdd(At(L.cum_expected, i - 1), o[i].xG)
                  /\ At(L.cum_actual, i) = IntToFloat(goalsTo(i))
                  /\ At(L.overperf, i) = FlSub(At(L.cum_actual, i), At(L.cum_expected, i))
                  /\ At(L.cum_expected, i) > At(L.cum_expected, i - 1)
                  /\ At(L.cum_actual, i) - At(L.cum_actual, i - 1) \in {0, IntToFloat(1)}

C6_Witness ==
    /\ pc = "charted"
    /\ Len(player_df) = MaxCurveShots
    /\ opdf # player_df
    /\ \E i \in 1..(Len(opdf) - 1) :
          opdf[i].xG = opdf[i + 1].xG /\ opdf[i].result # opdf[i + 1].result
    /\ At(Lists.overperf, Len(opdf)) < 0

\* C7: for an empty table the curve is built without failure, has length 1
\* and no peak marker.
C7_EmptyCurveBuilds ==
    (Len(player_df) = 0 /\ pc # "curve") =>
        /\ pc # "failed"
        /\ Len(Lists.overperf) = 1
        /\ peak_label = << >>

\* C8: when the maximum of the overperf list is positive, peak_overp_val is
\* that maximum and peak_idx_in_list the first index where it is reached; the
\* label is added exactly when the maximum is positive; for a single shot it
\* is added, at index 1, exactly for a goal with xG < 1.
C8_Peak ==
    pc = "charted" =>
        LET ov == Lists.overperf
            n  == Len(player_df)
            m  == PdMax(ov)
            first == CHOOSE k \in 0..n :
                        At(ov, k) = m /\ \A j \in 0..(k - 1) : At(ov, j) # m
        IN  /\ m > 0 => /\ PeakOf.peak_overp_val = m
                        /\ PeakOf.peak_idx_in_list = first
            /\ peak_label # << >> <=> m > 0
            /\ peak_label # << >> =>
                  /\ peak_label[1].x = PeakOf.peak_idx_in_list
                  /\ peak_label[1].y = PeakOf.peak_overp_val
            /\ n = 1 =>
                  ((peak_label # << >> /\ peak_label[1].x = 1)
                     <=> (player_df[1].result = "Goal" /\ player_df[1].xG < XgOne))

C8_Witness ==
    /\ pc = "charted"
    /\ peak_label # << >>
    /\ Len(player_df) = MaxCurveShots
    /\ peak_label[1].x \in 2..(MaxCurveShots - 1)
    /\ \E k \in 0..Len(player_df) :
          k # peak_label[1].x /\ At(Lists.overperf, k) = peak_label[1].y

\* ------------------------------------------------------------ breakdowns
\* Series.value_counts().to_dict(): each value that occurs, with its count.
ValueCounts(col) ==
    [c \in {col[i] : i \in 1..Len(col)} |->
        Cardinality({i \in 1..Len(col) : col[i] = c})]

\* dict.get(key, default)
DictGet(d, key, default) == IF key \in DOMAIN d THEN d[key] ELSE default

\* Mutant of GoalRows: the Goal filter is lost.
GoalRowsUnfiltered(pdf) == pdf

\* The rows of player_df whose result is Goal.
GoalRows(pdf) == SelectSeq(pdf, LAMBDA sh : sh.result = "Goal")

situations == <<"FromCorner", "SetPiece", "OpenPlay">>
shot_types == <<"Head", "RightFoot", "LeftFoot", "OtherBodyPart">>

RECURSIVE Breakdown(_, _, _, _, _)
\* The loop over the first k listed categories: one entry, keyed by key,
\* appended for each category with total > 0.
Breakdown(key, order, k, counts, goal_counts) ==
    IF k = 0 THEN << >>
    ELSE LET c     == order[k]
             total == DictGet(counts, c, 0)
             goals == DictGet(goal_counts, c, 0)
             rest  == Breakdown(key, order, k - 1, counts, goal_counts)
         IN  IF total > 0
             THEN Append(rest, (key :> c) @@ [attempts |-> total, goals |-> goals,
                                              conv |-> PctOf(goals, total)])
             ELSE rest

\* sit_data (lines 371 to 385)
SitData(pdf) ==
    Breakdown("situation", situations, Len(situations),
              ValueCounts(Column(pdf, "situation")),
              ValueCounts(Column(GoalRows(pdf), "situation")))

\* type_data (lines 441 to 455)
TypeData(pdf) ==
    Breakdown("type", shot_types, Len(shot_types),
              ValueCounts(Column(pdf, "shotType")),
              ValueCounts(Column(GoalRows(pdf), "shotType")))

GroupShots ==
    {Shot(XgOne \div 2, res, sit, ty) :
        res \in {"Goal", "MissedShots"},
        sit \in {"FromCorner", "SetPiece", "OpenPlay", "Penalty"},
        ty \in {"Head", "RightFoot", "LeftFoot", "OtherBodyPart"}}

\* The script at line 371, which it reaches for a non-empty table only.
AtBreakdown(pdf) ==
    /\ player_df = pdf
    /\ source = MakeSource(pdf)
    /\ stats_div = render_stats_html(compute_stats(pdf))
    /\ slider_value = SliderStart
    /\ cb = << >>
    /\ pc = "sit"
    /\ opdf = Unbuilt
    /\ curve = Unbuilt
    /\ peak_label = Unbuilt
    /\ sit_data = Unbuilt
    /\ type_data = Unbuilt

InitGroup == \E pdf \in NonEmptySeqsUpTo(GroupShots, MaxGroupShots) : AtBreakdown(pdf)

SitBreakdown ==
    /\ pc = "sit"
    /\ sit_data' = SitData(player_df)
    /\ pc' = "type"
    /\ UNCHANGED <<player_df, source, stats_div, slider_value, cb, opdf, curve,
                   peak_label, type_data>>

TypeBreakdown ==
    /\ pc = "type"
    /\ type_data' = TypeData(player_df)
    /\ pc' = "layout"
    /\ UNCHANGED <<player_df, source, stats_div, slider_value, cb, opdf, curve,
                   peak_label, sit_data>>

NextGroup == SitBreakdown \/ TypeBreakdown

SpecGroup == InitGroup /\ [][NextGroup]_vars

\* ------------------------------------------------ claims on the breakdowns
\* The entries of data are, in the listed order, exactly the listed
\* categories with a shot, each with its attempts, goals and conversion.
BreakdownOf(data, key, order, f) ==
    LET n       == Len(player_df)
        hits(c) == {i \in 1..n : player_df[i][f] = c}
        scored(c) == {i \in hits(c) : player_df[i].result = "Goal"}
        pos(c)  == CHOOSE k \in 1..Len(order) : order[k] = c
        sum[k \in 0..Len(data)] == IF k = 0 THEN 0 ELSE sum[k - 1] + data[k].attempts
    IN  /\ \A k \in 1..Len(order) :
              (hits(order[k]) # {}) <=> (\E e \in 1..Len(data) : data[e][key] = order[k])
        /\ \A e \in 1..Len(data) :
              /\ \E k \in 1..Len(order) : order[k] = data[e][key]
              /\ data[e].attempts = Cardinality(hits(data[e][key]))
              /\ data[e].attempts > 0
              /\ data[e].goals = Cardinality(scored(data[e][key]))
              /\ data[e].conv = Ratio(100 * data[e].goals, data[e].attempts)
        /\ \A e1 \in 1..Len(data) : \A e2 \in 1..Len(data) :
              e1 < e2 => pos(data[e1][key]) < pos(data[e2][key])
        /\ sum[Len(data)] <= n
        /\ sum[Len(data)] = Cardinality({i \in 1..n :
                                \E k \in 1..Len(order) : order[k] = player_df[i][f]})

\* C9: each breakdown holds one entry per listed category with a shot, in the
\* listed order, with attempts, goals and conv = goals / attempts * 100;
\* categories without shots and shots of unlisted categories give no entry,
\* so the attempts sum to at most the number of shots.
C9_Breakdowns ==
    pc = "layout" =>
        /\ BreakdownOf(sit_data, "situation", situations, "situation")
        /\ BreakdownOf(type_data, "type", shot_types, "shotType")

C9_Witness ==
    /\ pc = "layout"
    /\ Len(player_df) = MaxGroupShots
    /\ Len(sit_data) = 1
    /\ sit_data[1].attempts < Len(player_df)
    /\ Len(type_data) > 1
    /\ \E e \in 1..Len(type_data) : type_data[e].goals > 0

====
